---- MODULE Spec2Model ----
(***************************************************************************)
(* POS-based MATTR calculator (src/app.py): the regex tokenizer, the       *)
(* rule-based part-of-speech classifier, the MATTR computation and the     *)
(* per-document batch loop.                                                *)
(*                                                                         *)
(* Texts, tokens and tags are sequences of one-character strings, so that  *)
(* lower(), endswith(), startswith() and the regex are computed character  *)
(* by character.  Ratios are exact rationals <<numerator, denominator>>    *)
(* in lowest terms; the float64 values of the program are these rationals  *)
(* up to rounding.                                                         *)
(***************************************************************************)
EXTENDS Integers, Sequences, FiniteSets, TLC

VARIABLES
    \* MATTR engine (calculate_mattr applied to a token list)
    words, mattr, prevMattr, lastOp, mpc,
    \* rule-based classifier (simple_pos_categorize applied to a token)
    token, tag, tpc,
    \* rule-based extraction (simple_tokenize and extract_pos_simple applied to a text)
    text, tokens, extracted, xpc,
    \* the application run: strategy selection and the batch loop
    use_simple_processing, nltk_status, nltk_defined, extract_pos,
    uploaded_files, file_i, results, attempted, calls, messages, report, apc

mattrVars == <<words, mattr, prevMattr, lastOp, mpc>>
tagVars == <<token, tag, tpc>>
textVars == <<text, tokens, extracted, xpc>>
appVars ==
    <<use_simple_processing, nltk_status, nltk_defined, extract_pos,
      uploaded_files, file_i, results, attempted, calls, messages, report, apc>>
vars == <<mattrVars, tagVars, textVars, appVars>>

None == <<>>

-----------------------------------------------------------------------------
(* Bounds *)

\* longest token list given to calculate_mattr
MaxWords == 12

\* longest token over TagChars given to simple_pos_categorize
MaxTokenLen == 3

\* longest text given to simple_tokenize and extract_pos_simple
MaxTextLen == 5

\* largest number of uploaded files
MaxDocs == 2

-----------------------------------------------------------------------------
(* Exact rational arithmetic for the "/" and np.mean of calculate_mattr *)

RECURSIVE GCD(_, _)
GCD(a, b) == IF b = 0 THEN a ELSE GCD(b, a % b)

\* n / d, d > 0, n >= 0, in lowest terms
Rat(n, d) == LET g == GCD(n, d) IN <<n \div g, d \div g>>

RatAdd(p, q) == Rat(p[1] * q[2] + q[1] * p[2], p[2] * q[2])

RatLeq(p, q) == p[1] * q[2] <= q[1] * p[2]

Zero == <<0, 1>>

One == <<1, 1>>

\* set(seq)
SetOf(seq) == {seq[k] : k \in 1..Len(seq)}

RECURSIVE RatSum(_)
RatSum(ratios) ==
    IF Len(ratios) = 0 THEN Zero
    ELSE RatAdd(Head(ratios), RatSum(Tail(ratios)))

\* np.mean(ratios), ratios non-empty
Mean(ratios) ==
    LET s == RatSum(ratios) IN Rat(s[1], s[2] * Len(ratios))

-----------------------------------------------------------------------------
(* calculate_mattr *)

window_size == 11

\* the off-by-one variant range(len(words) - window_size)
calculate_mattr_short_range(ws) ==
    IF Len(ws) = 0 THEN Zero
    ELSE IF Len(ws) < window_size
         THEN Rat(Cardinality(SetOf(ws)), Len(ws))
         ELSE LET ratios ==
                    [i \in 1..(Len(ws) - window_size) |->
                        Rat(Cardinality(SetOf(SubSeq(ws, i, i + window_size - 1))),
                            window_size)]
              IN  IF Len(ratios) > 0 THEN Mean(ratios) ELSE Zero

\* the variant whose windows are anchored at the first token
calculate_mattr_anchored(ws) ==
    IF Len(ws) = 0 THEN Zero
    ELSE IF Len(ws) < window_size
         THEN Rat(Cardinality(SetOf(ws)), Len(ws))
         ELSE LET ratios ==
                    [i \in 1..(Len(ws) - window_size + 1) |->
                        Rat(Cardinality(SetOf(SubSeq(ws, 1, i + window_size - 1))),
                            window_size)]
              IN  IF Len(ratios) > 0 THEN Mean(ratios) ELSE Zero

\* the variant whose degenerate branch counts a type once per change of token
calculate_mattr_runs(ws) ==
    IF Len(ws) = 0 THEN Zero
    ELSE IF Len(ws) < window_size
         THEN Rat(Cardinality({k \in 1..Len(ws) : k = 1 \/ ws[k] # ws[k - 1]}),
                  Len(ws))
         ELSE LET ratios ==
                    [i \in 1..(Len(ws) - window_size + 1) |->
                        Rat(Cardinality(SetOf(SubSeq(ws, i, i + window_size - 1))),
                            window_size)]
              IN  IF Len(ratios) > 0 THEN Mean(ratios) ELSE Zero

calculate_mattr(ws) ==
    IF Len(ws) = 0 THEN Zero
    ELSE IF Len(ws) < window_size
         THEN Rat(Cardinality(SetOf(ws)), Len(ws))
         ELSE LET ratios ==
                    [i \in 1..(Len(ws) - window_size + 1) |->
                        Rat(Cardinality(SetOf(SubSeq(ws, i, i + window_size - 1))),
                            window_size)]
              IN  IF Len(ratios) > 0 THEN Mean(ratios) ELSE Zero


-----------------------------------------------------------------------------
(* simple_tokenize: text.lower(), then re.findall(r'\b[a-z0-9]+\b', text) *)

\* the characters of the modelled texts: lowercase letters, an uppercase
\* letter, a digit, an underscore, a non-ASCII letter and a blank
TextChars == {"i", "s", "c", "O", "1", "_", "é", " "}

\* str.lower() on one character
LowerChar(c) == IF c = "O" THEN "o" ELSE c

Lower(t) == [k \in 1..Len(t) |-> LowerChar(t[k])]

\* the class [a-z0-9]
InClass(c) == c \in {"i", "s", "c", "o", "1"}

\* \w of a str pattern: Unicode letters and digits, and the underscore
IsWordChar(c) == c \in {"i", "s", "c", "o", "O", "1", "_", "é"}

\* \b at position p (between t[p-1] and t[p]): exactly one side is a word character
Boundary(t, p) ==
    (p > 1 /\ IsWordChar(t[p - 1])) # (p <= Len(t) /\ IsWordChar(t[p]))

\* length of the match of \b[a-z0-9]+\b starting at p, 0 when there is none:
\* the greedy + takes the longest run that ends at a \b
MatchLen(t, p) ==
    LET ok == {n \in 1..(Len(t) - p + 1) :
                  /\ \A k \in p..(p + n - 1) : InClass(t[k])
                  /\ Boundary(t, p + n)}
    IN  IF Boundary(t, p) /\ ok # {} THEN CHOOSE n \in ok : \A m \in ok : m <= n ELSE 0

\* re.findall: the non-overlapping matches, scanning from left to right
RECURSIVE FindAll(_, _)
FindAll(t, p) ==
    IF p > Len(t) THEN <<>>
    ELSE LET n == MatchLen(t, p)
         IN  IF n > 0 THEN <<SubSeq(t, p, p + n - 1)>> \o FindAll(t, p + n)
             ELSE FindAll(t, p + 1)

simple_tokenize(t) == FindAll(Lower(t), 1)

-----------------------------------------------------------------------------
(* simple_pos_categorize *)

VB == <<"V", "B">>

JJ == <<"J", "J">>

RB == <<"R", "B">>

NN == <<"N", "N">>

VerbSuffixes ==
    {<<"e", "d">>, <<"i", "n", "g">>, <<"i", "z", "e">>, <<"i", "s", "e">>,
     <<"a", "t", "e">>, <<"e", "n">>}

VerbWords ==
    {<<"i", "s">>, <<"a", "m">>, <<"a", "r", "e">>, <<"w", "a", "s">>,
     <<"w", "e", "r", "e">>, <<"b", "e">>, <<"b", "e", "e", "n">>,
     <<"b", "e", "i", "n", "g">>, <<"h", "a", "v", "e">>, <<"h", "a", "s">>,
     <<"h", "a", "d">>, <<"d", "o">>, <<"d", "o", "e", "s">>, <<"d", "i", "d">>,
     <<"g", "o">>, <<"g", "o", "e", "s">>, <<"w", "e", "n", "t">>,
     <<"s", "e", "e">>, <<"s", "a", "w">>, <<"s", "e", "e", "n">>,
     <<"c", "o", "m", "e">>, <<"c", "a", "m", "e">>, <<"r", "u", "n">>,
     <<"r", "a", "n">>, <<"g", "e", "t">>, <<"g", "o", "t">>,
     <<"m", "a", "k", "e">>, <<"m", "a", "d", "e">>, <<"t", "a", "k", "e">>,
     <<"t", "o", "o", "k">>, <<"g", "i", "v", "e">>, <<"g", "a", "v", "e">>,
     <<"l", "i", "v", "e">>, <<"s", "a", "y">>, <<"s", "a", "i", "d">>,
     <<"t", "e", "l", "l">>, <<"t", "o", "l", "d">>, <<"f", "i", "n", "d">>,
     <<"f", "o", "u", "n", "d">>, <<"t", "h", "i", "n", "k">>,
     <<"t", "h", "o", "u", "g", "h", "t">>, <<"k", "n", "o", "w">>,
     <<"k", "n", "e", "w">>, <<"w", "a", "n", "t">>, <<"p", "u", "t">>,
     <<"r", "e", "a", "d">>, <<"w", "r", "i", "t", "e">>,
     <<"w", "r", "o", "t", "e">>}

AdjectiveSuffixes ==
    {<<"a", "b", "l", "e">>, <<"i", "b", "l", "e">>, <<"a", "l">>,
     <<"f", "u", "l">>, <<"i", "c">>, <<"i", "v", "e">>, <<"l", "e", "s", "s">>,
     <<"o", "u", "s">>}

AdjectiveWords ==
    {<<"g", "o", "o", "d">>, <<"b", "a", "d">>, <<"n", "e", "w">>,
     <<"o", "l", "d">>, <<"h", "i", "g", "h">>, <<"l", "o", "w">>,
     <<"b", "i", "g">>, <<"s", "m", "a", "l", "l">>,
     <<"l", "a", "r", "g", "e">>, <<"l", "i", "t", "t", "l", "e">>,
     <<"l", "o", "n", "g">>, <<"s", "h", "o", "r", "t">>,
     <<"g", "r", "e", "a", "t">>, <<"b", "e", "s", "t">>,
     <<"b", "e", "t", "t", "e", "r">>, <<"w", "o", "r", "s", "t">>,
     <<"w", "o", "r", "s", "e">>, <<"n", "i", "c", "e">>,
     <<"f", "i", "n", "e">>, <<"h", "a", "p", "p", "y">>, <<"s", "a", "d">>,
     <<"h", "o", "t">>, <<"c", "o", "l", "d">>, <<"w", "a", "r", "m">>,
     <<"c", "o", "o", "l">>, <<"s", "l", "o", "w">>, <<"f", "a", "s", "t">>,
     <<"e", "a", "s", "y">>, <<"h", "a", "r", "d">>,
     <<"e", "a", "r", "l", "y">>, <<"l", "a", "t", "e">>,
     <<"y", "o", "u", "n", "g">>, <<"r", "e", "d">>, <<"b", "l", "u", "e">>,
     <<"g", "r", "e", "e", "n">>, <<"b", "l", "a", "c", "k">>,
     <<"w", "h", "i", "t", "e">>, <<"d", "a", "r", "k">>,
     <<"l", "i", "g", "h", "t">>, <<"r", "i", "c", "h">>,
     <<"p", "o", "o", "r">>, <<"r", "e", "a", "l">>, <<"t", "r", "u", "e">>,
     <<"f", "a", "l", "s", "e">>}

AdverbSuffixes ==
    {<<"l", "y">>}

AdverbWords ==
    {<<"v", "e", "r", "y">>, <<"t", "o", "o">>, <<"s", "o">>,
     <<"q", "u", "i", "t", "e">>, <<"w", "e", "l", "l">>, <<"n", "o", "w">>,
     <<"t", "h", "e", "n">>, <<"h", "e", "r", "e">>,
     <<"t", "h", "e", "r", "e">>, <<"j", "u", "s", "t">>,
     <<"o", "n", "l", "y">>, <<"a", "l", "s", "o">>, <<"e", "v", "e", "n">>,
     <<"s", "t", "i", "l", "l">>, <<"a", "g", "a", "i", "n">>,
     <<"a", "l", "r", "e", "a", "d", "y">>, <<"a", "l", "w", "a", "y", "s">>,
     <<"n", "e", "v", "e", "r">>, <<"o", "f", "t", "e", "n">>,
     <<"s", "o", "m", "e", "t", "i", "m", "e", "s">>,
     <<"u", "s", "u", "a", "l", "l", "y">>, <<"t", "o", "d", "a", "y">>,
     <<"t", "o", "m", "o", "r", "r", "o", "w">>,
     <<"y", "e", "s", "t", "e", "r", "d", "a", "y">>, <<"s", "o", "o", "n">>,
     <<"l", "a", "t", "e", "r">>, <<"e", "a", "r", "l", "y">>,
     <<"f", "a", "s", "t">>, <<"h", "a", "r", "d">>, <<"a", "w", "a", "y">>,
     <<"b", "a", "c", "k">>, <<"u", "p">>, <<"d", "o", "w", "n">>, <<"i", "n">>,
     <<"o", "u", "t">>, <<"o", "f", "f">>, <<"o", "n">>, <<"o", "v", "e", "r">>,
     <<"u", "n", "d", "e", "r">>}

NounSuffixes ==
    {<<"t", "i", "o", "n">>, <<"s", "i", "o", "n">>, <<"m", "e", "n", "t">>,
     <<"n", "e", "s", "s">>, <<"i", "t", "y">>, <<"s", "h", "i", "p">>,
     <<"d", "o", "m">>, <<"e", "r">>, <<"o", "r">>, <<"i", "a", "n">>,
     <<"i", "s", "t">>}

NounWords ==
    {<<"t", "i", "m", "e">>, <<"y", "e", "a", "r">>, <<"d", "a", "y">>,
     <<"m", "a", "n">>, <<"w", "o", "m", "a", "n">>,
     <<"c", "h", "i", "l", "d">>, <<"p", "e", "r", "s", "o", "n">>,
     <<"w", "o", "r", "l", "d">>, <<"l", "i", "f", "e">>,
     <<"h", "a", "n", "d">>, <<"p", "a", "r", "t">>,
     <<"p", "l", "a", "c", "e">>, <<"c", "a", "s", "e">>,
     <<"g", "r", "o", "u", "p">>, <<"c", "o", "m", "p", "a", "n", "y">>,
     <<"p", "a", "r", "t", "y">>, <<"s", "c", "h", "o", "o", "l">>,
     <<"c", "o", "u", "n", "t", "r", "y">>, <<"s", "t", "a", "t", "e">>,
     <<"f", "a", "m", "i", "l", "y">>, <<"m", "o", "n", "e", "y">>,
     <<"n", "i", "g", "h", "t">>, <<"w", "a", "t", "e", "r">>,
     <<"t", "h", "i", "n", "g">>, <<"n", "a", "m", "e">>,
     <<"b", "o", "o", "k">>, <<"r", "o", "o", "m">>, <<"a", "r", "e", "a">>,
     <<"p", "o", "i", "n", "t">>, <<"h", "o", "u", "s", "e">>,
     <<"h", "o", "m", "e">>, <<"j", "o", "b">>, <<"l", "i", "n", "e">>,
     <<"e", "n", "d">>, <<"c", "i", "t", "y">>, <<"c", "a", "r">>,
     <<"t", "e", "a", "m">>, <<"w", "o", "r", "d">>, <<"g", "a", "m", "e">>,
     <<"f", "o", "o", "d">>, <<"p", "a", "p", "e", "r">>,
     <<"m", "u", "s", "i", "c">>, <<"p", "r", "o", "b", "l", "e", "m">>}

\* str.endswith(suffix)
EndsWith(t, suffix) ==
    /\ Len(t) >= Len(suffix)
    /\ SubSeq(t, Len(t) - Len(suffix) + 1, Len(t)) = suffix

\* str.endswith(tuple of suffixes)
EndsWithAny(t, suffixes) == \E suffix \in suffixes : EndsWith(t, suffix)

\* str.startswith(prefix)
StartsWith(t, prefix) ==
    /\ Len(t) >= Len(prefix)
    /\ SubSeq(t, 1, Len(prefix)) = prefix

\* the variant that tests the adverb rule before the adjective rule
simple_pos_categorize_adverb_first(t) ==
    IF EndsWithAny(t, VerbSuffixes) \/ t \in VerbWords THEN VB
    ELSE IF EndsWithAny(t, AdverbSuffixes) \/ t \in AdverbWords THEN RB
    ELSE IF EndsWithAny(t, AdjectiveSuffixes) \/ t \in AdjectiveWords THEN JJ
    ELSE IF EndsWithAny(t, NounSuffixes) \/ t \in NounWords THEN NN
    ELSE NN

simple_pos_categorize(t) ==
    IF EndsWithAny(t, VerbSuffixes) \/ t \in VerbWords THEN VB
    ELSE IF EndsWithAny(t, AdjectiveSuffixes) \/ t \in AdjectiveWords THEN JJ
    ELSE IF EndsWithAny(t, AdverbSuffixes) \/ t \in AdverbWords THEN RB
    ELSE IF EndsWithAny(t, NounSuffixes) \/ t \in NounWords THEN NN
    ELSE NN

-----------------------------------------------------------------------------
(* extract_pos_simple *)

\* pos_categories, in insertion order
pos_categories ==
    << [pos |-> "Verb", prefix |-> VB], [pos |-> "Noun", prefix |-> NN],
       [pos |-> "Adjective", prefix |-> JJ], [pos |-> "Adverb", prefix |-> RB] >>

\* [word for word, tag in tagged if tag.startswith(pos_prefix)]
RECURSIVE WordsWithPrefix(_, _)
WordsWithPrefix(tagged, pos_prefix) ==
    IF Len(tagged) = 0 THEN <<>>
    ELSE LET word == Head(tagged)[1]
             wtag == Head(tagged)[2]
         IN  (IF StartsWith(wtag, pos_prefix) THEN <<word>> ELSE <<>>)
                 \o WordsWithPrefix(Tail(tagged), pos_prefix)

\* the variant that keeps each matching word once
RECURSIVE TypesWithPrefix(_, _, _)
TypesWithPrefix(tagged, pos_prefix, seen) ==
    IF Len(tagged) = 0 THEN <<>>
    ELSE LET word == Head(tagged)[1]
             wtag == Head(tagged)[2]
         IN  (IF StartsWith(wtag, pos_prefix) /\ word \notin seen
              THEN <<word>> ELSE <<>>)
                 \o TypesWithPrefix(Tail(tagged), pos_prefix, seen \cup {word})

extract_pos_simple_types(t, pos_prefix) ==
    LET toks == simple_tokenize(t)
        tagged == [k \in 1..Len(toks) |-> <<toks[k], simple_pos_categorize(toks[k])>>]
    IN  TypesWithPrefix(tagged, pos_prefix, {})

\* the text is always a str here, and nothing in the body raises
extract_pos_simple(t, pos_prefix) ==
    LET toks == simple_tokenize(t)
        tagged == [k \in 1..Len(toks) |-> <<toks[k], simple_pos_categorize(toks[k])>>]
    IN  WordsWithPrefix(tagged, pos_prefix)

-----------------------------------------------------------------------------
(* Specification of the MATTR engine: a token list is drawn, calculate_mattr *)
(* is applied, and the list is then reordered and measured again.            *)

WordTokens == {"a", "b"}

WordLists == UNION {[1..n -> WordTokens] : n \in 0..MaxWords}

Reverse(s) == [k \in 1..Len(s) |-> s[Len(s) + 1 - k]]

SwapAt(s, k) ==
    [j \in 1..Len(s) |-> IF j = k THEN s[k + 1] ELSE IF j = k + 1 THEN s[k] ELSE s[j]]

MattrStart ==
    /\ words \in WordLists
    /\ mattr = None
    /\ prevMattr = None
    /\ lastOp = "none"
    /\ mpc = "input"

CalculateMattr ==
    /\ mpc = "input"
    /\ mattr' = calculate_mattr(words)
    /\ mpc' = "done"
    /\ UNCHANGED <<words, prevMattr, lastOp>>
    /\ UNCHANGED <<tagVars, textVars, appVars>>

\* measure the list again with two neighbouring tokens exchanged
MeasureSwapped ==
    /\ mpc = "done"
    /\ \E k \in 1..(Len(words) - 1) :
          /\ words[k] # words[k + 1]
          /\ words' = SwapAt(words, k)
    /\ prevMattr' = mattr
    /\ mattr' = calculate_mattr(words')
    /\ lastOp' = "swap"
    /\ UNCHANGED mpc
    /\ UNCHANGED <<tagVars, textVars, appVars>>

\* measure the list again in reverse order
MeasureReversed ==
    /\ mpc = "done"
    /\ words' = Reverse(words)
    /\ prevMattr' = mattr
    /\ mattr' = calculate_mattr(words')
    /\ lastOp' = "reverse"
    /\ UNCHANGED mpc
    /\ UNCHANGED <<tagVars, textVars, appVars>>

MattrNext == CalculateMattr \/ MeasureSwapped \/ MeasureReversed

MattrIdle ==
    /\ words = <<>>
    /\ mattr = None
    /\ prevMattr = None
    /\ lastOp = "none"
    /\ mpc = "idle"

-----------------------------------------------------------------------------
(* Specification of the classifier: a token is drawn and categorized. *)

TagChars == {"a", "l", "y", "e", "n", "r"}

\* the words of the four lists, words carrying each suffix, and every short
\* token over TagChars
SampleTokens ==
    VerbWords \cup AdjectiveWords \cup AdverbWords \cup NounWords
        \cup {<<"r", "u", "n", "n", "e", "r">>, <<"x">> \o <<"e", "r">>}
        \cup {<<"q", "u">> \o suffix :
                suffix \in VerbSuffixes \cup AdjectiveSuffixes
                            \cup AdverbSuffixes \cup NounSuffixes}
        \cup UNION {[1..n -> TagChars] : n \in 1..MaxTokenLen}

TagStart ==
    /\ token \in SampleTokens
    /\ tag = None
    /\ tpc = "input"

Categorize ==
    /\ tpc = "input"
    /\ tag' = simple_pos_categorize(token)
    /\ tpc' = "done"
    /\ UNCHANGED token
    /\ UNCHANGED <<mattrVars, textVars, appVars>>

TagNext == Categorize

TagIdle ==
    /\ token = <<>>
    /\ tag = None
    /\ tpc = "idle"

-----------------------------------------------------------------------------
(* Specification of the rule-based extraction: a text is drawn, tokenized,  *)
(* and its words are extracted for each category in pos_categories order.   *)

Texts == UNION {[1..n -> TextChars] : n \in 0..MaxTextLen}

TextStart ==
    /\ text \in Texts
    /\ tokens = None
    /\ extracted = <<>>
    /\ xpc = "input"

SimpleTokenize ==
    /\ xpc = "input"
    /\ tokens' = simple_tokenize(text)
    /\ xpc' = "tokenized"
    /\ UNCHANGED <<text, extracted>>
    /\ UNCHANGED <<mattrVars, tagVars, appVars>>

\* the next call of the loop `for pos, prefix in pos_categories.items()`
ExtractPosSimple ==
    /\ xpc = "tokenized"
    /\ Len(extracted) < Len(pos_categories)
    /\ extracted' = Append(extracted,
                           extract_pos_simple(text, pos_categories[Len(extracted) + 1].prefix))
    /\ UNCHANGED <<text, tokens, xpc>>
    /\ UNCHANGED <<mattrVars, tagVars, appVars>>

TextNext == SimpleTokenize \/ ExtractPosSimple

TextIdle ==
    /\ text = <<>>
    /\ tokens = None
    /\ extracted = <<>>
    /\ xpc = "idle"


-----------------------------------------------------------------------------
(* The application run: NLTK set-up, selection of extract_pos, batch loop *)

\* f"{mattr:.4f}": the value rounded to four decimals (ties to even), held
\* as the number of ten-thousandths, 1364 for "0.1364"
Format4f(r) ==
    LET scaled == r[1] * 10000
        q == scaled \div r[2]
        rem2 == 2 * (scaled % r[2])
    IN  IF rem2 > r[2] \/ (rem2 = r[2] /\ q % 2 = 1) THEN q + 1 ELSE q

\* a byte that is not valid UTF-8, and the character U+FFFD put in its place
InvalidByte == "0xFF"

ReplacementChar == "U+FFFD"

\* bytes.decode('utf-8', errors='replace')
Decode(data) ==
    [k \in 1..Len(data) |-> IF data[k] = InvalidByte THEN ReplacementChar ELSE data[k]]

\* the payloads of the uploaded files: one verb, adverb, adjective and noun;
\* twelve nouns (more than a window); a repeated noun around an invalid byte
SampleData ==
    {<<"i", "s", " ", "s", "O", " ", "i", "c", " ", "c">>,
     <<"c", " ", "c", " ", "c", " ", "c", " ", "c", " ", "c", " ", "c", " ", "c", " ", "c", " ", "c", " ", "c", " ", "s">>,
     <<"c", InvalidByte, "c">>}

\* how the file object behaves: read() works, read() raises and iteration
\* works, or both raise
ReadModes == {"ok", "read_raises", "all_raise"}

FileNames == <<"doc1.txt", "doc2.txt", "doc3.txt", "doc4.txt">>

UploadLists ==
    UNION {{[k \in 1..n |-> [name |-> FileNames[k], data |-> d[k], read |-> r[k]]] :
                d \in [1..n -> SampleData], r \in [1..n -> ReadModes]} :
           n \in 0..MaxDocs}

\* lines 249-261: the content the loop body works on
ReadContent(f) == IF f.read = "all_raise" THEN <<>> ELSE Decode(f.data)

\* lines 251-261: what reading surfaces
ReadMessages(f) ==
    IF f.read = "ok" THEN {}
    ELSE IF f.read = "read_raises"
         THEN {<<"warning", "Error reading", f.name>>,
               <<"info", "Attempting alternative reading method", f.name>>}
         ELSE {<<"warning", "Error reading", f.name>>,
               <<"info", "Attempting alternative reading method", f.name>>,
               <<"error", "All reading attempts failed", f.name>>}

\* word_tokenize and pos_tag are library code; a call either raises or
\* returns a tagging.  The tagging used here splits at blanks, keeps the
\* case, tags one-character tokens DT and gives the others a Penn tag built
\* on the rule-based category (VBD, NNS, JJR, RBR).
RECURSIVE BlankSplit(_, _, _)
BlankSplit(t, p, cur) ==
    IF p > Len(t) THEN (IF cur = <<>> THEN <<>> ELSE <<cur>>)
    ELSE IF t[p] = " "
         THEN (IF cur = <<>> THEN <<>> ELSE <<cur>>) \o BlankSplit(t, p + 1, <<>>)
         ELSE BlankSplit(t, p + 1, Append(cur, t[p]))

word_tokenize(t) == BlankSplit(t, 1, <<>>)

pos_tag(toks) ==
    [k \in 1..Len(toks) |->
        <<toks[k],
          IF Len(toks[k]) = 1 THEN <<"D", "T">>
          ELSE LET c == simple_pos_categorize(Lower(toks[k]))
               IN  c \o (IF c = VB THEN <<"D">> ELSE IF c = NN THEN <<"S">> ELSE <<"R">>)>>]

RECURSIVE LowerWordsWithPrefix(_, _)
LowerWordsWithPrefix(tagged, pos_prefix) ==
    IF Len(tagged) = 0 THEN <<>>
    ELSE LET word == Head(tagged)[1]
             wtag == Head(tagged)[2]
         IN  (IF StartsWith(wtag, pos_prefix) THEN <<Lower(word)>> ELSE <<>>)
                 \o LowerWordsWithPrefix(Tail(tagged), pos_prefix)

NltkOutcomes == {"ok", "raise"}

\* the variant whose except branch returns an empty list
extract_pos_nltk_empty_on_error(t, pos_prefix, outcome) ==
    IF outcome = "raise" THEN <<>>
    ELSE LowerWordsWithPrefix(pos_tag(word_tokenize(t)), pos_prefix)

\* extract_pos_nltk: the except branch falls back to extract_pos_simple
extract_pos_nltk(t, pos_prefix, outcome) ==
    IF outcome = "raise" THEN extract_pos_simple(t, pos_prefix)
    ELSE LowerWordsWithPrefix(pos_tag(word_tokenize(t)), pos_prefix)

\* line 218
select_extract_pos(simple) ==
    IF simple THEN "extract_pos_simple" ELSE "extract_pos_nltk"

\* the variant of the except clause of the loop body that leaves the loop
pc_after_file_break(raised) == IF raised THEN "report" ELSE "loop"

\* lines 282-283: the except clause ends the iteration, the loop goes on
pc_after_file(raised) == "loop"

\* the variant that inverts the ratio of the short branch
calculate_mattr_inverted(ws) ==
    IF Len(ws) = 0 THEN Zero
    ELSE IF Len(ws) < window_size
         THEN Rat(Len(ws), Cardinality(SetOf(ws)))
         ELSE calculate_mattr(ws)

\* lines 269-278: the entry of one category
category_result_inverted(pos, ws) ==
    [pos |-> pos, types |-> Cardinality(SetOf(ws)), tokens |-> Len(ws),
     mattr |-> Format4f(calculate_mattr_inverted(ws))]

category_result(pos, ws) ==
    [pos |-> pos, types |-> Cardinality(SetOf(ws)), tokens |-> Len(ws),
     mattr |-> Format4f(calculate_mattr(ws))]

AppStart ==
    /\ use_simple_processing \in BOOLEAN
    /\ nltk_status = "not_requested"
    /\ nltk_defined = FALSE
    /\ extract_pos = "unset"
    /\ uploaded_files \in UploadLists
    /\ file_i = 0
    /\ results = <<>>
    /\ attempted = <<>>
    /\ calls = <<>>
    /\ messages = {}
    /\ report = None
    /\ apc = "nltk"

AppIdle ==
    /\ use_simple_processing = TRUE
    /\ nltk_status = "not_requested"
    /\ nltk_defined = FALSE
    /\ extract_pos = "unset"
    /\ uploaded_files = <<>>
    /\ file_i = 0
    /\ results = <<>>
    /\ attempted = <<>>
    /\ calls = <<>>
    /\ messages = {}
    /\ report = None
    /\ apc = "idle"

loopVars == <<uploaded_files, file_i, results, attempted, calls, report>>

\* line 133: the checkbox is ticked, the NLTK block is skipped
SkipNltk ==
    /\ apc = "nltk"
    /\ use_simple_processing
    /\ apc' = "select"
    /\ UNCHANGED <<use_simple_processing, nltk_status, nltk_defined, extract_pos, messages>>
    /\ UNCHANGED loopVars
    /\ UNCHANGED <<mattrVars, tagVars, textVars>>

\* lines 137-138, 185-187: the import raises ImportError
NltkImportFails ==
    /\ apc = "nltk"
    /\ ~use_simple_processing
    /\ nltk_status' = "import_error"
    /\ messages' = messages \cup {<<"warning", "NLTK import failed", "">>}
    /\ use_simple_processing' = TRUE
    /\ apc' = "select"
    /\ UNCHANGED <<nltk_defined, extract_pos>>
    /\ UNCHANGED loopVars
    /\ UNCHANGED <<mattrVars, tagVars, textVars>>

\* lines 141-145: os.makedirs raises OSError, which `except ImportError`
\* does not catch
NltkDataDirFails ==
    /\ apc = "nltk"
    /\ ~use_simple_processing
    /\ nltk_status' = "data_dir_error"
    /\ apc' = "crashed"
    /\ UNCHANGED <<use_simple_processing, nltk_defined, extract_pos, messages>>
    /\ UNCHANGED loopVars
    /\ UNCHANGED <<mattrVars, tagVars, textVars>>

\* lines 148-156, 164-167, 170: a download or the self-test raises
NltkResourcesFail ==
    /\ apc = "nltk"
    /\ ~use_simple_processing
    /\ nltk_status' = "resource_error"
    /\ messages' = messages \cup {<<"warning", "Failed to download NLTK resources", "">>,
                                  <<"info", "Falling back to simple processing mode", "">>}
    /\ use_simple_processing' = TRUE
    /\ nltk_defined' = TRUE
    /\ apc' = "select"
    /\ UNCHANGED extract_pos
    /\ UNCHANGED loopVars
    /\ UNCHANGED <<mattrVars, tagVars, textVars>>

\* lines 158-162, 170: the self-test returns no tag
NltkSelfTestEmpty ==
    /\ apc = "nltk"
    /\ ~use_simple_processing
    /\ nltk_status' = "selftest_empty"
    /\ messages' = messages \cup {<<"success", "NLTK resources loaded successfully", "">>,
                                  <<"warning", "NLTK tokenization test failed", "">>}
    /\ use_simple_processing' = TRUE
    /\ nltk_defined' = TRUE
    /\ apc' = "select"
    /\ UNCHANGED extract_pos
    /\ UNCHANGED loopVars
    /\ UNCHANGED <<mattrVars, tagVars, textVars>>

\* lines 148-159, 170: NLTK works
NltkReady ==
    /\ apc = "nltk"
    /\ ~use_simple_processing
    /\ nltk_status' = "ready"
    /\ messages' = messages \cup {<<"success", "NLTK resources loaded successfully", "">>,
                                  <<"success", "NLTK tokenization and tagging is working", "">>}
    /\ nltk_defined' = TRUE
    /\ apc' = "select"
    /\ UNCHANGED <<use_simple_processing, extract_pos>>
    /\ UNCHANGED loopVars
    /\ UNCHANGED <<mattrVars, tagVars, textVars>>

\* lines 218-226: extract_pos is bound (a NameError if extract_pos_nltk is
\* named and was never defined), and the page branches on uploaded_files
SelectExtractPos ==
    /\ apc = "select"
    /\ LET chosen == select_extract_pos(use_simple_processing)
       IN  IF chosen = "extract_pos_nltk" /\ ~nltk_defined
           THEN /\ apc' = "crashed"
                /\ UNCHANGED <<extract_pos, messages>>
           ELSE /\ extract_pos' = chosen
                /\ messages' = messages \cup
                      {<<"info",
                         IF use_simple_processing
                         THEN "Using simple rule-based tokenization and POS tagging"
                         ELSE "Using NLTK for tokenization and POS tagging", "">>}
                /\ apc' = IF Len(uploaded_files) > 0 THEN "loop" ELSE "prompt"
    /\ UNCHANGED <<use_simple_processing, nltk_status, nltk_defined>>
    /\ UNCHANGED loopVars
    /\ UNCHANGED <<mattrVars, tagVars, textVars>>

\* the contents the loop can read: the decoded payloads and the empty content
SampleContents == {Decode(d) : d \in SampleData} \cup {<<>>}

\* the words extract_pos returns for each content, category and outcome of
\* the NLTK calls, evaluated once per content
ExtractedWords ==
    [fn \in {"extract_pos_simple", "extract_pos_nltk"} |->
        [c \in SampleContents |->
            [outcome \in NltkOutcomes |->
                [k \in 1..Len(pos_categories) |->
                    IF fn = "extract_pos_nltk"
                    THEN extract_pos_nltk(c, pos_categories[k].prefix, outcome)
                    ELSE extract_pos_simple(c, pos_categories[k].prefix)]]]]

\* the entries of file_data for each list of extracted words
FileData ==
    [fn \in {"extract_pos_simple", "extract_pos_nltk"} |->
        [c \in SampleContents |->
            [outcome \in NltkOutcomes |->
                [k \in 1..Len(pos_categories) |->
                    category_result(pos_categories[k].pos,
                                    ExtractedWords[fn][c][outcome][k])]]]]

\* word_tokenize and pos_tag are functions of the text alone, so the four
\* extract_pos_nltk calls of one file raise together or not at all
CallOutcomes ==
    IF extract_pos = "extract_pos_nltk" THEN NltkOutcomes ELSE {"ok"}

\* the body of the try raises nowhere, or in the computation that follows
\* the extraction of the words
Failures == {"none", "compute"}

\* lines 243-283: one iteration of the loop over uploaded_files
ProcessFile ==
    /\ apc = "loop"
    /\ file_i < Len(uploaded_files)
    /\ \E failure \in Failures, outcome \in CallOutcomes :
          LET f == uploaded_files[file_i + 1]
              content == ReadContent(f)
              raised == failure # "none"
              cs == [k \in 1..Len(pos_categories) |->
                       LET prefix == pos_categories[k].prefix
                       IN  [fn |-> extract_pos, text |-> content, prefix |-> prefix,
                            nltk_raised |-> (extract_pos = "extract_pos_nltk"
                                                /\ outcome = "raise"),
                            returned |-> ExtractedWords[extract_pos][content][outcome][k]]]
              file_data == FileData[extract_pos][content][outcome]
              nltk_msgs == {<<"warning", "NLTK processing error", f.name>> :
                               k \in {k \in 1..Len(cs) : cs[k].nltk_raised}}
          IN  /\ calls' = cs
              /\ results' = IF raised THEN results
                            ELSE Append(results, [name |-> f.name, data |-> file_data])
              /\ messages' = messages \cup ReadMessages(f) \cup nltk_msgs
                    \cup (IF raised THEN {<<"error", "Error processing", f.name>>} ELSE {})
              /\ attempted' = Append(attempted, [name |-> f.name, raised |-> raised])
              /\ apc' = pc_after_file(raised)
    /\ file_i' = file_i + 1
    /\ UNCHANGED <<use_simple_processing, nltk_status, nltk_defined, extract_pos,
                   uploaded_files, report>>
    /\ UNCHANGED <<mattrVars, tagVars, textVars>>

\* lines 286-298: the rows of the CSV file, one per entry of results
WriteReport ==
    /\ \/ apc = "loop" /\ file_i = Len(uploaded_files)
       \/ apc = "report"
    /\ report' = [k \in 1..Len(results) |->
                     <<results[k].name>> \o
                     [c \in 1..(3 * Len(pos_categories)) |->
                         LET d == results[k].data[((c - 1) \div 3) + 1]
                         IN  IF c % 3 = 1 THEN d.types
                             ELSE IF c % 3 = 2 THEN d.tokens ELSE d.mattr]]
    /\ apc' = "done"
    /\ UNCHANGED <<use_simple_processing, nltk_status, nltk_defined, extract_pos,
                   uploaded_files, file_i, results, attempted, calls, messages>>
    /\ UNCHANGED <<mattrVars, tagVars, textVars>>

\* lines 327-328: no file was uploaded
ShowUploadPrompt ==
    /\ apc = "prompt"
    /\ messages' = messages \cup {<<"info", "Upload text files to begin analysis", "">>}
    /\ apc' = "prompt_shown"
    /\ UNCHANGED <<use_simple_processing, nltk_status, nltk_defined, extract_pos>>
    /\ UNCHANGED loopVars
    /\ UNCHANGED <<mattrVars, tagVars, textVars>>

AppNext ==
    \/ SkipNltk
    \/ NltkImportFails
    \/ NltkDataDirFails
    \/ NltkResourcesFail
    \/ NltkSelfTestEmpty
    \/ NltkReady
    \/ SelectExtractPos
    \/ ProcessFile
    \/ WriteReport
    \/ ShowUploadPrompt

-----------------------------------------------------------------------------
(* Specifications *)

MattrInit == MattrStart /\ TagIdle /\ TextIdle /\ AppIdle

SpecMattr == MattrInit /\ [][MattrNext]_vars

TagInit == TagStart /\ MattrIdle /\ TextIdle /\ AppIdle

SpecTag == TagInit /\ [][TagNext]_vars

TextInit == TextStart /\ MattrIdle /\ TagIdle /\ AppIdle

SpecText == TextInit /\ [][TextNext]_vars

AppInit == AppStart /\ MattrIdle /\ TagIdle /\ TextIdle

SpecApp == AppInit /\ [][AppNext]_vars

-----------------------------------------------------------------------------
(* Properties of the MATTR engine *)

\* number of distinct tokens among ws[from..to]
DistinctCount(ws, from, to) ==
    Cardinality({t \in WordTokens : \E k \in from..to : ws[k] = t})

\* sum over the start indices 0..last of the distinct count of the window
RECURSIVE WindowDistinctSum(_, _)
WindowDistinctSum(ws, last) ==
    IF last < 0 THEN 0
    ELSE DistinctCount(ws, last + 1, last + window_size)
            + WindowDistinctSum(ws, last - 1)

\* C1: calculate_mattr returns 0 for the empty list, distinct/n for a list
\* shorter than the window, and otherwise the unweighted mean over the
\* n - w + 1 start indices of distinct(window)/w; with n = w that is
\* distinct(tokens)/w.
C1_MattrDefinition ==
    mpc = "done" =>
        LET n == Len(words)
            w == window_size
        IN  /\ n = 0 => mattr = Zero
            /\ (0 < n /\ n < w) =>
                   mattr[1] * n = mattr[2] * DistinctCount(words, 1, n)
            /\ n >= w =>
                   mattr[1] * (w * (n - w + 1))
                       = mattr[2] * WindowDistinctSum(words, n - w)
            /\ n = w => mattr[1] * w = mattr[2] * DistinctCount(words, 1, n)

\* twelve tokens, two windows with 1 and 2 types: (1/11 + 2/11) / 2 = 3/22
C1_Witness ==
    /\ mpc = "done"
    /\ lastOp = "none"
    /\ Len(words) = window_size + 1
    /\ words[window_size + 1] = "b"
    /\ \A k \in 1..window_size : words[k] = "a"
    /\ mattr = <<3, 22>>

\* some list at least as long as the window changes its MATTR when two
\* neighbouring tokens are exchanged
OrderSensitive ==
    \E ws \in WordLists :
        /\ Len(ws) >= window_size
        /\ \E k \in 1..(Len(ws) - 1) :
              calculate_mattr(SwapAt(ws, k)) # calculate_mattr(ws)

\* C8: below the window size every reordering of the list leaves the result
\* unchanged (each reordering is a chain of exchanges and reversals, each of
\* which leaves it unchanged); at or above the window size some list and
\* some reordering of it give different results.
C8_PermutationInvariance ==
    /\ (mpc = "done" /\ lastOp # "none" /\ 0 < Len(words) /\ Len(words) < window_size)
           => mattr = prevMattr
    /\ OrderSensitive

C8_Witness ==
    /\ mpc = "done"
    /\ lastOp = "swap"
    /\ Len(words) = window_size - 1
    /\ Cardinality(SetOf(words)) = 2
    /\ mattr = prevMattr
    /\ mattr = <<1, 5>>

-----------------------------------------------------------------------------
(* Properties of the classifier *)

VerbRule(t) == (\E suffix \in VerbSuffixes : EndsWith(t, suffix)) \/ t \in VerbWords

AdjectiveRule(t) ==
    (\E suffix \in AdjectiveSuffixes : EndsWith(t, suffix)) \/ t \in AdjectiveWords

AdverbRule(t) == (\E suffix \in AdverbSuffixes : EndsWith(t, suffix)) \/ t \in AdverbWords

Runner == <<"r", "u", "n", "n", "e", "r">>

\* C3: the tag is that of the earliest matching rule in the order Verb,
\* Adjective, Adverb, and Noun otherwise; a word of both the adjective and
\* the adverb list is an Adjective; "runner" is a Noun and matches none of
\* the three earlier rules.
C3_FixedPriorityOrder ==
    tpc = "done" =>
        /\ VerbRule(token) => tag = VB
        /\ (~VerbRule(token) /\ AdjectiveRule(token)) => tag = JJ
        /\ (~VerbRule(token) /\ ~AdjectiveRule(token) /\ AdverbRule(token)) => tag = RB
        /\ (~VerbRule(token) /\ ~AdjectiveRule(token) /\ ~AdverbRule(token)) => tag = NN
        /\ (token \in AdjectiveWords \cap AdverbWords /\ ~VerbRule(token)) => tag = JJ
        /\ token = Runner =>
               tag = NN /\ ~VerbRule(token) /\ ~AdjectiveRule(token) /\ ~AdverbRule(token)

\* "early" is in the adjective list and in the adverb list (and ends in "ly")
C3_Witness ==
    /\ tpc = "done"
    /\ token = <<"e", "a", "r", "l", "y">>
    /\ token \in AdjectiveWords \cap AdverbWords
    /\ tag = JJ

-----------------------------------------------------------------------------
(* Properties of the tokenizer and of the extraction *)

AsciiAlnum(c) == c \in {"i", "s", "c", "o", "O", "1"}

\* the maximal runs of ASCII alphanumeric characters of t from position p on
RECURSIVE AsciiRuns(_, _)
AsciiRuns(t, p) ==
    IF p > Len(t) THEN <<>>
    ELSE IF ~AsciiAlnum(t[p]) THEN AsciiRuns(t, p + 1)
    ELSE LET stop == CHOOSE q \in (p + 1)..(Len(t) + 1) :
                        /\ q = Len(t) + 1 \/ ~AsciiAlnum(t[q])
                        /\ \A k \in p..(q - 1) : AsciiAlnum(t[k])
         IN  <<SubSeq(t, p, stop - 1)>> \o AsciiRuns(t, stop)

\* C7: simple_tokenize returns, in order, exactly the lowercased maximal runs
\* of ASCII alphanumeric characters of the text, also next to an underscore
\* or a non-ASCII letter, and the empty sequence for the empty text.
C7_TokensAreAsciiRuns ==
    xpc = "tokenized" =>
        LET runs == AsciiRuns(text, 1)
        IN  /\ tokens = [k \in 1..Len(runs) |-> Lower(runs[k])]
            /\ text = <<>> => tokens = <<>>

CountIn(seq, v) == Cardinality({k \in 1..Len(seq) : seq[k] = v})

HasPrefixTag(t, k) == StartsWith(simple_pos_categorize(t), pos_categories[k].prefix)

\* C10: each extracted list is the subsequence, in order, of the tokens of
\* simple_tokenize(text) whose tag starts with the category's prefix; every
\* token has exactly one of the four tags, and once the four lists are
\* extracted every token occurrence is in exactly one of them, so the four
\* token counts add up to the number of tokens.
C10_CategoriesPartitionTokens ==
    xpc = "tokenized" =>
        /\ \A k \in 1..Len(extracted) :
               extracted[k] = SelectSeq(tokens, LAMBDA t : HasPrefixTag(t, k))
        /\ \A i \in 1..Len(tokens) :
               Cardinality({k \in 1..Len(pos_categories) : HasPrefixTag(tokens[i], k)}) = 1
        /\ Len(extracted) = Len(pos_categories) =>
               /\ Len(extracted[1]) + Len(extracted[2]) + Len(extracted[3])
                      + Len(extracted[4]) = Len(tokens)
               /\ \A i \in 1..Len(tokens) :
                      CountIn(extracted[1], tokens[i]) + CountIn(extracted[2], tokens[i])
                          + CountIn(extracted[3], tokens[i]) + CountIn(extracted[4], tokens[i])
                          = CountIn(tokens, tokens[i])

\* "is sO": a verb and an adverb
C10_Witness ==
    /\ xpc = "tokenized"
    /\ text = <<"i", "s", " ", "s", "O">>
    /\ tokens = << <<"i", "s">>, <<"s", "o">> >>
    /\ extracted = << << <<"i", "s">> >>, <<>>, <<>>, << <<"s", "o">> >> >>

-----------------------------------------------------------------------------
(* Properties of the application run *)

\* C2: every entry of results has types <= tokens, a MATTR within [0, 1]
\* when it has tokens, and types = 0, tokens = 0, MATTR = 0 when the
\* category has no token in the document.
C2_ResultInvariant ==
    /\ \A k \in 1..Len(results) : \A c \in 1..Len(pos_categories) :
          LET d == results[k].data[c]
          IN  /\ d.types <= d.tokens
              /\ d.tokens > 0 => (0 <= d.mattr /\ d.mattr <= 10000)
              /\ d.tokens = 0 => (d.types = 0 /\ d.mattr = 0)
    /\ \A c \in 1..Len(calls) :
          LET m == calculate_mattr(calls[c].returned)
          IN  /\ RatLeq(Zero, m) /\ RatLeq(m, One)
              /\ Len(calls[c].returned) = 0 => m = Zero

\* twelve nouns and no verb: Verb 0, 0, "0.0000" and Noun 2, 12, "0.1364"
C2_Witness ==
    /\ Len(results) = 1
    /\ results[1].data[1] = [pos |-> "Verb", types |-> 0, tokens |-> 0, mattr |-> 0]
    /\ results[1].data[2] = [pos |-> "Noun", types |-> 2, tokens |-> 12, mattr |-> 1364]

\* a row that carries an error marker has a field besides the name and the
\* three columns of each category
RowHasErrorMarker(row) == Len(row) > 1 + 3 * Len(pos_categories)

\* C4: the report has exactly one row per uploaded file, in upload order,
\* and the row of a file whose reading or processing failed carries an
\* error marker.
C4_ReportAccountsForEveryDocument ==
    apc = "done" =>
        /\ Len(report) = Len(uploaded_files)
        /\ \A k \in 1..Len(report) :
              /\ report[k][1] = uploaded_files[k].name
              /\ (attempted[k].raised \/ uploaded_files[k].read = "all_raise")
                     => RowHasErrorMarker(report[k])

RowNames(rows) == [k \in 1..Len(rows) |-> rows[k].name]

\* C5: the files are attempted one at a time in upload order; a failure
\* never ends the loop: the next file is attempted, the loop ends only
\* after the last file, and the rows are in upload order.
C5_FailureNeverAbortsBatch ==
    /\ Len(attempted) = file_i
    /\ \A k \in 1..Len(attempted) : attempted[k].name = uploaded_files[k].name
    /\ file_i > 0 => apc \in {"loop", "done"}
    /\ (apc = "loop" /\ file_i < Len(uploaded_files)) => ENABLED ProcessFile
    /\ apc = "done" => file_i = Len(uploaded_files)
    /\ RowNames(results) = RowNames(SelectSeq(attempted, LAMBDA a : ~a.raised))
    /\ apc = "done" =>
           [k \in 1..Len(report) |-> report[k][1]] = RowNames(results)

\* the first of two files fails, the second is processed and reported
C5_Witness ==
    /\ apc = "done"
    /\ Len(uploaded_files) = 2
    /\ attempted[1].raised
    /\ ~attempted[2].raised
    /\ Len(report) = 1
    /\ report[1][1] = FileNames[2]

Selected == apc \in {"loop", "prompt", "prompt_shown", "report", "done"}

\* C6: (a) when the import, the download or the self-test fails, a warning
\* is surfaced, the run does not crash and extract_pos is
\* extract_pos_simple; the selected function is always defined; (b) a call
\* of extract_pos_nltk in which NLTK raises returns what extract_pos_simple
\* returns for the same text and prefix, and surfaces a warning.
C6_FallbackToRuleBased ==
    /\ nltk_status \in {"import_error", "resource_error", "selftest_empty"} =>
          /\ apc # "crashed"
          /\ \E m \in messages : m[1] = "warning" /\ m[3] = ""
          /\ Selected => extract_pos = "extract_pos_simple"
    /\ Selected =>
          /\ extract_pos \in {"extract_pos_simple", "extract_pos_nltk"}
          /\ extract_pos = "extract_pos_nltk" => nltk_defined
    /\ \A c \in 1..Len(calls) :
          calls[c].nltk_raised =>
              /\ calls[c].fn = "extract_pos_nltk"
              /\ calls[c].returned = extract_pos_simple(calls[c].text, calls[c].prefix)
              /\ <<"warning", "NLTK processing error", attempted[file_i].name>> \in messages
              /\ apc # "crashed"

\* NLTK is ready, raises on "is sO ic c", and the Verb call returns "is"
C6_Witness ==
    /\ nltk_status = "ready"
    /\ extract_pos = "extract_pos_nltk"
    /\ Len(calls) = Len(pos_categories)
    /\ calls[1].nltk_raised
    /\ calls[1].prefix = VB
    /\ calls[1].returned = << <<"i", "s">> >>
    /\ calls[4].returned = << <<"s", "o">> >>
    /\ Len(results) = 1

====
